---- MODULE Spec2Model ----
(***************************************************************************)
(* Talk2Repo (src/main.py): an interactive menu that ingests a GitHub      *)
(* repository into a vector store and answers questions about it.          *)
(* Strings are TLA+ strings; the Python string methods the program uses    *)
(* (strip, split, replace, endswith, isdigit, int, join) are operators     *)
(* that compute what the methods compute.  The remote host, the vector     *)
(* store and the LLM are the environment: their answers are chosen with \E *)
(* from small sets.                                                        *)
(***************************************************************************)
EXTENDS Integers, Sequences, FiniteSets, TLC

(***************************************************************************)
(* Python string methods                                                   *)
(***************************************************************************)
Ch(s, i) == SubSeq(s, i, i)

From(s, i) == SubSeq(s, i, Len(s))

\* str.endswith(ext)
EndsWith(s, ext) == Len(s) >= Len(ext) /\ From(s, Len(s) - Len(ext) + 1) = ext

RECURSIVE LStrip(_, _)
LStrip(s, cs) == IF Len(s) > 0 /\ Ch(s, 1) \in cs THEN LStrip(From(s, 2), cs) ELSE s

RECURSIVE RStrip(_, _)
RStrip(s, cs) ==
    IF Len(s) > 0 /\ Ch(s, Len(s)) \in cs THEN RStrip(SubSeq(s, 1, Len(s) - 1), cs) ELSE s

\* str.strip(chars)
StripChars(s, cs) == RStrip(LStrip(s, cs), cs)

Whitespace == {" ", "\t", "\n", "\r"}

\* str.strip()
Strip(s) == StripChars(s, Whitespace)

\* index of the first occurrence of sub in s at or after i, 0 when there is none
RECURSIVE Find(_, _, _)
Find(s, sub, i) ==
    IF i + Len(sub) - 1 > Len(s) THEN 0
    ELSE IF SubSeq(s, i, i + Len(sub) - 1) = sub THEN i
    ELSE Find(s, sub, i + 1)

\* str.split(sep): always at least one piece, empty pieces are kept
RECURSIVE Split(_, _)
Split(s, sep) ==
    LET k == Find(s, sep, 1)
    IN  IF k = 0 THEN <<s>>
        ELSE <<SubSeq(s, 1, k - 1)>> \o Split(From(s, k + Len(sep)), sep)

\* str.replace(old, new): every non-overlapping occurrence, left to right
RECURSIVE Replace(_, _, _)
Replace(s, old, new) ==
    LET k == Find(s, old, 1)
    IN  IF k = 0 THEN s
        ELSE SubSeq(s, 1, k - 1) \o new \o Replace(From(s, k + Len(old)), old, new)

\* sep.join(parts)
RECURSIVE Join(_, _)
Join(parts, sep) ==
    IF Len(parts) = 0 THEN ""
    ELSE IF Len(parts) = 1 THEN parts[1]
    ELSE parts[1] \o sep \o Join(Tail(parts), sep)

Digits == <<"0", "1", "2", "3", "4", "5", "6", "7", "8", "9">>

DigitChars == {Digits[i] : i \in DOMAIN Digits}

\* str.isdigit(): non-empty and every character a digit
IsDigit(s) == Len(s) > 0 /\ \A i \in 1..Len(s) : Ch(s, i) \in DigitChars

DigitVal(c) == (CHOOSE i \in DOMAIN Digits : Digits[i] = c) - 1

\* int(s) for a string of digits
RECURSIVE ToInt(_)
ToInt(s) ==
    IF Len(s) = 0 THEN 0
    ELSE ToInt(SubSeq(s, 1, Len(s) - 1)) * 10 + DigitVal(Ch(s, Len(s)))

(***************************************************************************)
(* urlparse(repo_url).path: what follows scheme://netloc, up to the query  *)
(* or the fragment                                                         *)
(***************************************************************************)
RECURSIVE UpTo(_, _)
UpTo(s, stops) ==
    IF Len(s) = 0 \/ Ch(s, 1) \in stops THEN "" ELSE Ch(s, 1) \o UpTo(From(s, 2), stops)

UrlPath(url) ==
    LET k    == Find(url, "://", 1)
        rest == IF k = 0 THEN url ELSE From(url, k + 3)
        loc  == IF k = 0 THEN "" ELSE UpTo(rest, {"/", "?", "#"})
    IN  UpTo(From(rest, Len(loc) + 1), {"?", "#"})

(***************************************************************************)
(* get_repo_info                                                           *)
(***************************************************************************)
PathParts(repo_url) == Split(StripChars(UrlPath(repo_url), {"/"}), "/")

RepoName(segment) == Replace(segment, ".git", "")

get_repo_info(repo_url) ==
    LET path_parts == PathParts(repo_url)
    IN  IF Len(path_parts) < 2
        THEN [exc |-> "ValueError", owner |-> "", repo |-> ""]
        ELSE [exc |-> "none", owner |-> path_parts[1], repo |-> RepoName(path_parts[2])]

(***************************************************************************)
(* The repository host.  A remote tree answers a contents request for a    *)
(* path with a JSON list of items, or with one item that is not in a list, *)
(* and a raw request for a download_url with the file's text.              *)
(***************************************************************************)
DownloadUrl(path) == "raw://" \o path

File(path) == [type |-> "file", path |-> path, download_url |-> DownloadUrl(path)]

Dir(path) == [type |-> "dir", path |-> path, download_url |-> ""]

Symlink(path) == [type |-> "symlink", path |-> path, download_url |-> DownloadUrl(path)]

JsonList(items) == [list |-> TRUE, items |-> items]

JsonItem(item) == [list |-> FALSE, item |-> item]

\* a.py, b.png, c/d.py
Tree1 ==
    [listing |-> ("" :> JsonList(<<File("a.py"), File("b.png"), Dir("c")>>))
                 @@ ("c" :> JsonList(<<File("c/d.py")>>)),
     raw |-> (DownloadUrl("a.py") :> "x=1") @@ (DownloadUrl("b.png") :> "PNG")
             @@ (DownloadUrl("c/d.py") :> "y=2")]

\* directories two deep, media files at both depths, an upper-case extension,
\* a directory named like a media file, and an item that is neither file nor dir
Tree2 ==
    [listing |-> ("" :> JsonList(<<Dir("src"), File("README.md"), File("logo.svg"),
                                   Symlink("link")>>))
                 @@ ("src" :> JsonList(<<Dir("src/img.png"), File("src/main.py")>>))
                 @@ ("src/img.png" :> JsonList(<<File("src/img.png/x.jpeg"),
                                                 File("src/img.png/pic.PNG")>>)),
     raw |-> (DownloadUrl("README.md") :> "hi") @@ (DownloadUrl("logo.svg") :> "SVG")
             @@ (DownloadUrl("src/main.py") :> "x=1")
             @@ (DownloadUrl("src/img.png/x.jpeg") :> "JPEG")
             @@ (DownloadUrl("src/img.png/pic.PNG") :> "hi")
             @@ (DownloadUrl("link") :> "a.py")]

\* a path shared with Tree1, and a listing answered with one item, not a list
Tree3 ==
    [listing |-> ("" :> JsonList(<<Dir("docs"), File("a.py")>>))
                 @@ ("docs" :> JsonItem(File("docs/demo.mp4.txt"))),
     raw |-> (DownloadUrl("a.py") :> "x=2") @@ (DownloadUrl("docs/demo.mp4.txt") :> "y=2")]

Trees == <<Tree1, Tree2, Tree3>>

ErrorStatuses == {403, 404, 500}

ContentsRequest(path) == [kind |-> "contents", key |-> path]

RawRequest(url) == [kind |-> "raw", key |-> url]

Requests(tree) ==
    {ContentsRequest(p) : p \in DOMAIN tree.listing} \cup {RawRequest(u) : u \in DOMAIN tree.raw}

\* the host of one ingest: the tree it serves and the requests it refuses
StatusOf(host, request) == IF request \in host.refused THEN host.status ELSE 200

\* a faulty raise_for_status: only server errors raise
RaisesForServerError(status) == 500 <= status /\ status < 600

\* Response.raise_for_status(): raises HTTPError for 4xx and 5xx
RaisesForStatus(status) == 400 <= status /\ status < 600

(***************************************************************************)
(* get_contents and get_file_content                                       *)
(***************************************************************************)
ApiUrl(owner, repo, path) ==
    "https://api.github.com/repos/" \o owner \o "/" \o repo \o "/contents/" \o path

excluded_extensions ==
    <<".png", ".jpg", ".jpeg", ".gif", ".bmp", ".svg", ".mp4", ".mp3", ".wav", ".avi", ".mov">>

IsExcluded(path) ==
    \E k \in DOMAIN excluded_extensions : EndsWith(path, excluded_extensions[k])

\* items = response.json(); a response that is not a list is one item
ItemsOf(json) == IF json.list THEN json.items ELSE <<json.item>>

\* a faulty skip: media files are fetched like any other file
SkipsNothing(item) == FALSE

Skips(item) == item.type = "file" /\ IsExcluded(item.path)

\* requests.get(download_url); raise_for_status(); response.text
get_file_content(host, download_url) ==
    LET call == [kind |-> "raw", url |-> download_url]
    IN  IF RaisesForStatus(StatusOf(host, RawRequest(download_url)))
        THEN [exc |-> "HTTPError", val |-> "", calls |-> <<call>>]
        ELSE [exc |-> "none", val |-> Trees[host.tree].raw[download_url], calls |-> <<call>>]

RECURSIVE get_contents(_, _, _, _)
RECURSIVE ForItems(_, _, _, _, _, _, _)

\* the for loop of get_contents from item i on, with the contents built and the
\* requests made so far; an exception leaves the loop and the function at once
ForItems(host, owner, repo, items, i, contents, calls) ==
    IF i > Len(items) THEN [exc |-> "none", val |-> contents, calls |-> calls]
    ELSE LET item == items[i]
         IN  IF Skips(item)
             THEN ForItems(host, owner, repo, items, i + 1, contents, calls)
             ELSE IF item.type = "file"
             THEN LET r == get_file_content(host, item.download_url)
                  IN  IF r.exc # "none"
                      THEN [exc |-> r.exc, val |-> <<>>, calls |-> calls \o r.calls]
                      ELSE ForItems(host, owner, repo, items, i + 1,
                                    Append(contents, [type |-> "file", path |-> item.path,
                                                      content |-> r.val]),
                                    calls \o r.calls)
             ELSE IF item.type = "dir"
             THEN LET r == get_contents(host, owner, repo, item.path)
                  IN  IF r.exc # "none"
                      THEN [exc |-> r.exc, val |-> <<>>, calls |-> calls \o r.calls]
                      ELSE ForItems(host, owner, repo, items, i + 1,
                                    Append(contents, [type |-> "dir", path |-> item.path,
                                                      contents |-> r.val]),
                                    calls \o r.calls)
             ELSE ForItems(host, owner, repo, items, i + 1, contents, calls)

get_contents(host, owner, repo, path) ==
    LET call == [kind |-> "contents", url |-> ApiUrl(owner, repo, path)]
    IN  IF RaisesForStatus(StatusOf(host, ContentsRequest(path)))
        THEN [exc |-> "HTTPError", val |-> <<>>, calls |-> <<call>>]
        ELSE ForItems(host, owner, repo, ItemsOf(Trees[host.tree].listing[path]), 1, <<>>, <<call>>)

(***************************************************************************)
(* flatten_contents                                                        *)
(***************************************************************************)
RECURSIVE Flatten(_)
Flatten(items) ==
    IF Len(items) = 0 THEN <<>>
    ELSE LET item == Head(items)
         IN  (IF item.type = "file" THEN <<[path |-> item.path, content |-> item.content]>>
              ELSE IF item.type = "dir" THEN Flatten(item.contents)
              ELSE <<>>) \o Flatten(Tail(items))

flatten_contents(contents) == Flatten(contents)

(***************************************************************************)
(* The vector store: collection name -> the records of the collection, in  *)
(* insertion order.  A collection keeps one record per id: add refuses a   *)
(* batch that is empty or repeats an id, and an id the collection already  *)
(* holds is either refused or left as it is, depending on the store.       *)
(***************************************************************************)
IdsOf(coll) == {coll[k].id : k \in DOMAIN coll}

HasRepeat(seq) == \E a, b \in DOMAIN seq : a # b /\ seq[a] = seq[b]

RECURSIVE Keep(_, _)
Keep(records, held) ==
    IF Len(records) = 0 THEN <<>>
    ELSE (IF Head(records).id \in held THEN <<>> ELSE <<Head(records)>>)
         \o Keep(Tail(records), held)

\* chroma_client.get_or_create_collection(name)
get_or_create_collection(db, name) == IF name \in DOMAIN db THEN db ELSE db @@ (name :> <<>>)

\* collection.add(documents, metadatas, ids)
CollectionAdd(coll, documents, metadatas, ids, onExisting) ==
    LET records == [k \in DOMAIN ids |->
                      [id |-> ids[k], document |-> documents[k], metadata |-> metadatas[k]]]
    IN  IF \/ Len(ids) = 0
           \/ HasRepeat(ids)
           \/ (onExisting = "raise" /\ \E k \in DOMAIN ids : ids[k] \in IdsOf(coll))
        THEN [exc |-> "StoreError", coll |-> coll]
        ELSE [exc |-> "none", coll |-> coll \o Keep(records, IdsOf(coll))]

Take(seq, n) == SubSeq(seq, 1, IF n < Len(seq) THEN n ELSE Len(seq))

\* collection.query(query_texts=[query], n_results): one list of documents per
\* query text, the n_results closest first; closest is the store's to say
CollectionQuery(coll, n_results, ranking) ==
    <<[k \in 1..Len(Take(ranking, n_results)) |-> coll[ranking[k]].document]>>

\* the rankings the store chooses from: the rotations of insertion order
Rotation(m, first) == [k \in 1..m |-> ((first + k - 2) % m) + 1]

(***************************************************************************)
(* ingest_into_vector_db                                                   *)
(***************************************************************************)
CollectionName(owner, repo) == owner \o "_" \o repo \o "_collection"

OutputFilename(repo) == repo \o "_structured_content.json"

\* faulty add arguments: the ids are taken from the texts
AddArgumentsIdsFromTexts(files) ==
    [documents |-> [k \in DOMAIN files |-> files[k].content],
     metadatas |-> [k \in DOMAIN files |-> [path |-> files[k].path]],
     ids       |-> [k \in DOMAIN files |-> files[k].content]]

AddArguments(files) ==
    [documents |-> [k \in DOMAIN files |-> files[k].content],
     metadatas |-> [k \in DOMAIN files |-> [path |-> files[k].path]],
     ids       |-> [k \in DOMAIN files |-> files[k].path]]

\* fault: where the store fails on its own ("create", "op") or "none"
ingest_into_vector_db(db, files, collection_name, fault, onExisting) ==
    LET create == [kind |-> "get_or_create_collection", url |-> collection_name]
        add    == [kind |-> "add", url |-> collection_name]
        args   == AddArguments(files)
        db1    == get_or_create_collection(db, collection_name)
        r      == CollectionAdd(db1[collection_name], args.documents, args.metadatas,
                                args.ids, onExisting)
    IN  IF fault = "create"
        THEN [exc |-> "StoreError", db |-> db, calls |-> <<create>>, adds |-> <<>>]
        ELSE IF fault = "op" \/ r.exc # "none"
        THEN [exc |-> "StoreError", db |-> db1, calls |-> <<create, add>>,
              adds |-> <<[name |-> collection_name] @@ args>>]
        ELSE [exc |-> "none", db |-> [db1 EXCEPT ![collection_name] = r.coll],
              calls |-> <<create, add>>, adds |-> <<[name |-> collection_name] @@ args>>]

(***************************************************************************)
(* query_vector_db                                                         *)
(***************************************************************************)
RECURSIVE FlattenLists(_)
FlattenLists(lists) ==
    IF Len(lists) = 0 THEN <<>> ELSE Head(lists) \o FlattenLists(Tail(lists))

query_vector_db(db, query, collection_name, k, fault, first) ==
    LET create == [kind |-> "get_or_create_collection", url |-> collection_name]
        ask    == [kind |-> "query", url |-> collection_name]
        db1    == get_or_create_collection(db, collection_name)
        coll   == db1[collection_name]
        rank   == IF Len(coll) = 0 THEN <<>> ELSE Rotation(Len(coll), first)
    IN  IF fault = "create"
        THEN [exc |-> "StoreError", db |-> db, calls |-> <<create>>, val |-> <<>>]
        ELSE IF fault = "op"
        THEN [exc |-> "StoreError", db |-> db1, calls |-> <<create, ask>>, val |-> <<>>]
        ELSE [exc |-> "none", db |-> db1, calls |-> <<create, ask>>,
              val |-> FlattenLists(CollectionQuery(coll, k, rank))]

\* top_k = input(...).strip(); 5 unless top_k.isdigit(), else int(top_k)
TopK(line) == IF ~IsDigit(Strip(line)) THEN 5 ELSE ToInt(Strip(line))

(***************************************************************************)
(* truncate_to_token_limit, summarize_text, generate_gpt4_response         *)
(***************************************************************************)
\* the tokenizer of the model: one token per character; decode(encode(t)) = t
Encode(text) == [k \in 1..Len(text) |-> Ch(text, k)]

Decode(tokens) == Join(tokens, "")

truncate_to_token_limit(text, max_tokens) ==
    LET tokens == Encode(text)
    IN  IF Len(tokens) <= max_tokens THEN text ELSE Decode(SubSeq(tokens, 1, max_tokens))

max_context_tokens == 6000

\* a faulty summarize_text: a failed call is made a second time
summarize_text_retry(text, reply) ==
    LET call == [kind |-> "summarize", url |-> text]
    IN  IF ~reply.ok THEN [exc |-> "APIError", val |-> "", calls |-> <<call, call>>]
        ELSE [exc |-> "none", val |-> Strip(reply.content), calls |-> <<call>>]

\* reply: [ok, content], the answer of client.chat.completions.create
summarize_text(text, reply) ==
    LET call == [kind |-> "summarize", url |-> text]
    IN  IF ~reply.ok THEN [exc |-> "APIError", val |-> "", calls |-> <<call>>]
        ELSE [exc |-> "none", val |-> Strip(reply.content), calls |-> <<call>>]

Prompt(context, query) ==
    "You are an assistant that provides detailed answers based on the following context:\n\n\n"
    \o "Context:\n" \o context \o "\n\nQuestion:\n" \o query \o "\n\nAnswer:"

Apology == "I'm sorry, I couldn't process your request at the moment."

\* response.choices[0].message.content.strip()
AnswerOf(content) == Strip(content)

\* faulty try blocks: one that encloses nothing, one that encloses the whole function
GenerateCatchesNothing(step, exc) == FALSE

GenerateCatchesAll(step, exc) == TRUE

\* the try of generate_gpt4_response encloses the answer completion call alone
GenerateCatches(step, exc) == step = "complete"

\* a faulty handler: it names one exception type
ExceptValueError(exc) == exc = "ValueError"

\* except Exception in main: every exception the workflows raise is an Exception
ExceptException(exc) == exc \in {"ValueError", "HTTPError", "OSError", "StoreError", "APIError"}

(***************************************************************************)
(* What the user types and what the environment answers                    *)
(***************************************************************************)
MaxChoices == 2

ChoiceLines == {"1", "2", "3", " 3\n", "4", "", "exit"}

RepoUrlLines ==
    {"https://github.com",
     "https://github.com//octo//",
     " https://github.com/octo/repo.git\n",
     "https://github.com/octo/my.github.io/tree/main?tab=readme"}

CollectionLines == {"octo_repo_collection", " octo_myhub.io_collection\n"}

QueryLines == {"what is x?"}

TopKLines == {"", "0", " 2 ", "-1", "abc", "007"}

Failure == [ok |-> FALSE, content |-> ""]

SummaryReplies == {Failure, [ok |-> TRUE, content |-> " S1\n"], [ok |-> TRUE, content |-> "S2"]}

AnswerReplies == {Failure, [ok |-> TRUE, content |-> "\n x is set. "]}

\* a host serves one of the trees and refuses at most one request
Hosts ==
    {[tree |-> t, refused |-> {}, status |-> 200] : t \in DOMAIN Trees}
    \cup UNION {{[tree |-> t, refused |-> {q}, status |-> st] :
                    q \in Requests(Trees[t]), st \in ErrorStatuses} : t \in DOMAIN Trees}

NoHost == [tree |-> 0, refused |-> {}, status |-> 200]

NoExc == [type |-> "none", at |-> ""]

\* before the first prompt no choice has been read
NoChoice == "<none>"

NoReply == [ok |-> TRUE, content |-> ""]

VARIABLES
    pc,              \* "menu", "generate" (inside generate_gpt4_response), "exit", "crashed"
    steps,           \* the workflows run so far
    choice,          \* the menu choice read last
    out,             \* what the last menu iteration printed
    raised,          \* the exception the last workflow raised, and where
    db,              \* the vector store
    files,           \* the snapshot files on disk
    calls,           \* the external calls of the last workflow, in order
    repo_url, loc,   \* ingest: the URL read and what get_repo_info made of it
    host,            \* ingest: the repository host that answered
    adds,            \* ingest: the arguments of its collection.add calls
    top_k_line, top_k, collection_name, query,
    context_docs,    \* query: the documents retrieved
    summaries,       \* query: the summaries made so far
    reply,           \* query: the reply to the answer completion call
    answer           \* query: what generate_gpt4_response returned

ingestVars == <<repo_url, loc, host, adds>>

queryVars == <<top_k_line, top_k, collection_name, query, context_docs, summaries, reply, answer>>

vars == <<pc, steps, choice, out, raised, db, files, calls, ingestVars, queryVars>>

NoLoc == [owner |-> "", repo |-> ""]

\* the locals of a workflow that does not run in the menu iteration that begins
NoIngest == repo_url' = "" /\ loc' = NoLoc /\ host' = NoHost /\ adds' = <<>>

NoQuery ==
    /\ top_k_line' = "" /\ top_k' = 5 /\ collection_name' = "" /\ query' = ""
    /\ context_docs' = <<>> /\ summaries' = <<>> /\ reply' = NoReply /\ answer' = ""

Init ==
    /\ pc = "menu" /\ steps = 0 /\ choice = NoChoice /\ out = <<>> /\ raised = NoExc
    /\ db = <<>> /\ files = {} /\ calls = <<>>
    /\ repo_url = "" /\ loc = NoLoc /\ host = NoHost /\ adds = <<>>
    /\ top_k_line = "" /\ top_k = 5 /\ collection_name = "" /\ query = ""
    /\ context_docs = <<>> /\ summaries = <<>> /\ reply = NoReply /\ answer = ""

(***************************************************************************)
(* main, choice 1: the ingest workflow inside its try                      *)
(***************************************************************************)
\* the try block is left, by its end or by an exception that main's except meets
IngestEnds(exc, h, made, store, disk, added, printed) ==
    /\ raised' = exc /\ host' = h /\ calls' = made
    /\ db' = store /\ files' = disk /\ adds' = added
    /\ IF exc = NoExc THEN pc' = "menu" /\ out' = printed
       ELSE IF ExceptException(exc.type)
       THEN pc' = "menu" /\ out' = Append(printed, "An error occurred: " \o exc.type)
       ELSE pc' = "crashed" /\ out' = printed

\* the environment chooses the URL typed, the host that answers, whether the
\* snapshot can be written (writable) and how the store behaves
Ingest ==
    /\ pc = "menu" /\ steps < MaxChoices
    /\ choice' = "1" /\ steps' = steps + 1
    /\ NoQuery
    /\ \E line \in RepoUrlLines : \E info \in {get_repo_info(Strip(line))} :
         /\ repo_url' = Strip(line)
         /\ loc' = [owner |-> info.owner, repo |-> info.repo]
         /\ IF info.exc # "none"
            THEN IngestEnds([type |-> info.exc, at |-> "get_repo_info"], NoHost, <<>>,
                            db, files, <<>>, <<>>)
            ELSE \E h \in Hosts : \E fetched \in {get_contents(h, info.owner, info.repo, "")} :
              IF fetched.exc # "none"
              THEN IngestEnds([type |-> fetched.exc, at |-> "get_contents"], h, fetched.calls,
                              db, files, <<>>, <<"Processing repository">>)
              ELSE \E writable \in BOOLEAN :
                LET output_filename == OutputFilename(info.repo)
                    written == Append(fetched.calls, [kind |-> "write", url |-> output_filename])
                IN  IF ~writable
                    THEN IngestEnds([type |-> "OSError", at |-> "open"], h, written,
                                    db, files, <<>>, <<"Processing repository">>)
                    ELSE \E fault \in {"none", "create", "op"}, onExisting \in {"raise", "skip"} :
                         \E stored \in {ingest_into_vector_db(db, flatten_contents(fetched.val),
                                           CollectionName(info.owner, info.repo), fault, onExisting)} :
                           IngestEnds(IF stored.exc = "none" THEN NoExc
                                      ELSE [type |-> stored.exc, at |-> "ingest_into_vector_db"],
                                      h, written \o stored.calls, stored.db,
                                      files \cup {output_filename}, stored.adds,
                                      <<"Processing repository", "Repository contents have been saved">>
                                      \o (IF stored.exc = "none" THEN <<"Ingested documents">> ELSE <<>>))

(***************************************************************************)
(* main, choice 2: query_main inside its try                               *)
(***************************************************************************)
\* an exception that leaves query_main reaches the except of main
QueryRaises(exc, printed) ==
    /\ raised' = exc
    /\ IF ExceptException(exc.type)
       THEN pc' = "menu" /\ out' = Append(printed, "An error occurred during querying: " \o exc.type)
       ELSE pc' = "crashed" /\ out' = printed

\* generate_gpt4_response returned; query_main prints the answer
QueryReturns(text, printed) ==
    /\ answer' = text /\ pc' = "menu"
    /\ out' = printed \o <<"=== GPT-4 Response ===", text>>

\* the inputs, the top-k coercion and the retrieval
Query ==
    /\ pc = "menu" /\ steps < MaxChoices
    /\ \E cline \in CollectionLines, qline \in QueryLines, kline \in TopKLines,
          fault \in {"none", "create", "op"}, first \in 1..3 :
          \E k \in {TopK(kline)} :
          \E r \in {query_vector_db(db, Strip(qline), Strip(cline), k, fault, first)} :
              /\ collection_name' = Strip(cline) /\ query' = Strip(qline)
              /\ top_k_line' = kline /\ top_k' = k
              /\ db' = r.db /\ calls' = r.calls
              /\ context_docs' = r.val
              /\ IF r.exc # "none"
                 THEN QueryRaises([type |-> r.exc, at |-> "query_vector_db"],
                                  <<"Retrieving relevant documents">>)
                 ELSE /\ pc' = "generate" /\ raised' = NoExc
                      /\ out' = <<"Retrieving relevant documents", "Retrieved documents",
                                  "Generating response using GPT-4">>
    /\ choice' = "2" /\ steps' = steps + 1
    /\ summaries' = <<>> /\ reply' = NoReply /\ answer' = ""
    /\ NoIngest
    /\ UNCHANGED files

\* generate_gpt4_response, one summarize_text call of the list comprehension
Summarize ==
    /\ pc = "generate" /\ Len(summaries) < Len(context_docs)
    /\ \E rep \in SummaryReplies :
          \E r \in {summarize_text(context_docs[Len(summaries) + 1], rep)} :
              /\ calls' = calls \o r.calls
              /\ IF r.exc = "none"
                 THEN /\ summaries' = Append(summaries, r.val)
                      /\ UNCHANGED <<pc, out, raised, answer>>
                 ELSE /\ UNCHANGED summaries
                      /\ IF GenerateCatches("summarize", r.exc)
                         THEN QueryReturns(Apology, out) /\ UNCHANGED raised
                         ELSE QueryRaises([type |-> r.exc, at |-> "summarize_text"], out)
                              /\ UNCHANGED answer
    /\ UNCHANGED <<steps, choice, db, files, ingestVars, top_k_line, top_k, collection_name,
                   query, context_docs, reply>>

\* generate_gpt4_response from the join on: truncation, prompt, answer completion
Complete ==
    /\ pc = "generate" /\ Len(summaries) = Len(context_docs)
    /\ \E rep \in AnswerReplies :
          LET combined_context == Join(summaries, "\n\n")
              context == truncate_to_token_limit(combined_context, max_context_tokens)
              prompt  == Prompt(context, query)
          IN  /\ calls' = calls \o <<[kind |-> "truncate", url |-> combined_context],
                                     [kind |-> "complete", url |-> prompt]>>
              /\ reply' = rep
              /\ IF rep.ok
                 THEN QueryReturns(AnswerOf(rep.content), out) /\ UNCHANGED raised
                 ELSE IF GenerateCatches("complete", "APIError")
                 THEN QueryReturns(Apology, out) /\ UNCHANGED raised
                 ELSE QueryRaises([type |-> "APIError", at |-> "complete"], out)
                      /\ UNCHANGED answer
    /\ UNCHANGED <<steps, choice, db, files, ingestVars, top_k_line, top_k, collection_name,
                   query, context_docs, summaries>>

(***************************************************************************)
(* main, choice 3 and any other choice                                     *)
(***************************************************************************)
Exit ==
    /\ pc = "menu"
    /\ \E line \in ChoiceLines :
          /\ Strip(line) = "3"
          /\ choice' = Strip(line)
    /\ pc' = "exit" /\ out' = <<"Exiting the program.">>
    /\ raised' = NoExc /\ calls' = <<>>
    /\ NoIngest /\ NoQuery
    /\ UNCHANGED <<steps, db, files>>

Invalid ==
    /\ pc = "menu"
    /\ \E line \in ChoiceLines :
          /\ Strip(line) \notin {"1", "2", "3"}
          /\ choice' = Strip(line)
    /\ out' = <<"Invalid choice. Please enter 1, 2, or 3.">>
    /\ raised' = NoExc /\ calls' = <<>>
    /\ NoIngest /\ NoQuery
    /\ UNCHANGED <<pc, steps, db, files>>

Next == Ingest \/ Query \/ Summarize \/ Complete \/ Exit \/ Invalid

Spec == Init /\ [][Next]_vars
(***************************************************************************)
(* Properties                                                              *)
(***************************************************************************)
Last(seq) == seq[Len(seq)]

EndedWith(kind) == Len(calls) > 0 /\ Last(calls).kind = kind

KindsOf(seq) == {seq[k].kind : k \in DOMAIN seq}

\* C1: every exception of the ingest and query workflows is caught by the menu
\* loop and reported, and the loop goes back to the prompt; the loop ends only on
\* choice '3', and a choice that is none of 1, 2, 3 prints the hint and re-prompts
C1_MenuLoopSurvives ==
    /\ pc \in {"menu", "generate", "exit"}
    /\ raised # NoExc =>
         /\ pc = "menu"
         /\ Last(out) \in {"An error occurred: " \o raised.type,
                           "An error occurred during querying: " \o raised.type}
    /\ pc = "exit" => choice = "3"
    /\ choice \notin {NoChoice, "1", "2", "3"} =>
         pc = "menu" /\ out = <<"Invalid choice. Please enter 1, 2, or 3.">>

\* a query failed in the summarizer after an ingest had succeeded, and the menu is back
C1_Witness ==
    /\ pc = "menu" /\ steps = MaxChoices /\ files # {}
    /\ raised = [type |-> "APIError", at |-> "summarize_text"]

\* content is answer with white space around it, and answer has none at its ends
IsStripOf(answer_, content) ==
    /\ \E a \in 0..Len(content) :
         /\ SubSeq(content, a + 1, a + Len(answer_)) = answer_
         /\ \A k \in (1..a) \cup ((a + Len(answer_) + 1)..Len(content)) : Ch(content, k) \in Whitespace
    /\ Len(answer_) > 0 => Ch(answer_, 1) \notin Whitespace /\ Ch(answer_, Len(answer_)) \notin Whitespace

\* C2: once the answer completion call was made, generate_gpt4_response has
\* returned: the fixed apology when the call failed, the stripped content of the
\* reply when it succeeded; nothing was raised
C2_CompletionFailureYieldsApology ==
    EndedWith("complete") =>
        /\ raised = NoExc /\ pc = "menu"
        /\ ~reply.ok => answer = "I'm sorry, I couldn't process your request at the moment."
        /\ reply.ok => IsStripOf(answer, reply.content)
        /\ Last(out) = answer

C2_Witness ==
    /\ EndedWith("complete") /\ ~reply.ok /\ Len(context_docs) > 0
    /\ answer = "I'm sorry, I couldn't process your request at the moment."

\* the query workflow ended with a summarization call: that call failed
SummarizerFailed == choice = "2" /\ pc # "generate" /\ EndedWith("summarize")

\* C3 as stated: when the summarizer fails, generate_gpt4_response returns a
\* failure message instead of raising
C3_Original == SummarizerFailed => raised = NoExc /\ answer # ""

\* C3 amended: when the summarizer fails, the exception leaves
\* generate_gpt4_response and query_main and reaches the menu loop, which reports
\* it; no answer is returned and the answer completion call is not made
C3_SummarizerFailurePropagates ==
    SummarizerFailed =>
        /\ raised = [type |-> "APIError", at |-> "summarize_text"]
        /\ answer = "" /\ pc = "menu"
        /\ Last(out) = "An error occurred during querying: APIError"
        /\ "complete" \notin KindsOf(calls)

\* the summarizer failed on the second document
C3_Witness == SummarizerFailed /\ Len(summaries) = 1 /\ Len(context_docs) >= 2

\* the request a call of the ingest made
RequestOf(call) ==
    IF call.kind = "raw" THEN RawRequest(call.url)
    ELSE ContentsRequest(From(call.url, Len(ApiUrl(loc.owner, loc.repo, "")) + 1))

Refused(call) == call.kind \in {"contents", "raw"} /\ RequestOf(call) \in host.refused

RefusedCall == choice = "1" /\ \E k \in DOMAIN calls : Refused(calls[k])

\* C4: an ingest in which a listing or raw request gets a non-success status stops
\* at that request with the HTTP error: no snapshot is written, no collection is
\* created, nothing is added to the store, and the menu reports the error
C4_FetchFailureAbortsIngest ==
    [][RefusedCall' =>
          /\ raised' = [type |-> "HTTPError", at |-> "get_contents"]
          /\ Refused(Last(calls))' /\ KindsOf(calls)' \subseteq {"contents", "raw"}
          /\ adds' = <<>> /\ db' = db /\ files' = files
          /\ pc' = "menu" /\ Last(out)' = "An error occurred: HTTPError"]_vars

\* a raw request below the root was refused, after an earlier ingest had stored documents
C4_Witness ==
    /\ RefusedCall /\ Last(calls).kind = "raw" /\ Len(calls) >= 4
    /\ \E name \in DOMAIN db : Len(db[name]) > 0

AddCalls == {k \in DOMAIN calls : calls[k].kind = "add"}

Denylist ==
    {".png", ".jpg", ".jpeg", ".gif", ".bmp", ".svg", ".mp4", ".mp3", ".wav", ".avi", ".mov"}

Denylisted(path) == \E ext \in Denylist : EndsWith(path, ext)

\* the file paths of a remote tree below path, depth first, children in listing order
RECURSIVE TreeFiles(_, _)
RECURSIVE ItemsFiles(_, _)
ItemsFiles(tree, items) ==
    IF Len(items) = 0 THEN <<>>
    ELSE (IF Head(items).type = "file" THEN <<Head(items).path>>
          ELSE IF Head(items).type = "dir" THEN TreeFiles(tree, Head(items).path)
          ELSE <<>>) \o ItemsFiles(tree, Tail(items))

TreeFiles(tree, path) ==
    ItemsFiles(tree, IF tree.listing[path].list THEN tree.listing[path].items
                     ELSE <<tree.listing[path].item>>)

RECURSIVE Allowed(_)
Allowed(paths) ==
    IF Len(paths) = 0 THEN <<>>
    ELSE (IF Denylisted(Head(paths)) THEN <<>> ELSE <<Head(paths)>>) \o Allowed(Tail(paths))

IngestSucceeded == choice = "1" /\ raised = NoExc

\* C6: a successful ingest hands the store exactly the files of the remote tree
\* whose path has no denylisted extension, depth first in listing order, each with
\* id = path and its content, and they are in the collection afterwards; no
\* denylisted file is ever requested or stored
C6_StoredFilesAreTheAllowedFiles ==
    /\ IngestSucceeded =>
         LET tree  == Trees[host.tree]
             paths == Allowed(TreeFiles(tree, ""))
         IN  /\ Len(adds) = 1
             /\ adds[1].ids = paths
             /\ adds[1].documents = [k \in DOMAIN paths |-> tree.raw[DownloadUrl(paths[k])]]
             /\ \A k \in DOMAIN paths : paths[k] \in IdsOf(db[adds[1].name])
    /\ \A k \in DOMAIN calls : calls[k].kind = "raw" => ~Denylisted(calls[k].url)
    /\ \A name \in DOMAIN db : \A k \in DOMAIN db[name] : ~Denylisted(db[name][k].id)

\* a.py, b.png, c/d.py into an empty store
C6_Witness ==
    /\ IngestSucceeded /\ host.tree = 1
    /\ adds[1].ids = <<"a.py", "c/d.py">>
    /\ db[adds[1].name] = <<[id |-> "a.py", document |-> "x=1", metadata |-> [path |-> "a.py"]],
                            [id |-> "c/d.py", document |-> "y=2", metadata |-> [path |-> "c/d.py"]]>>

RECURSIVE NonEmpty(_)
NonEmpty(parts) ==
    IF Len(parts) = 0 THEN <<>>
    ELSE (IF Head(parts) = "" THEN <<>> ELSE <<Head(parts)>>) \o NonEmpty(Tail(parts))

\* the non-empty segments of the path of a URL
Segments(url) == NonEmpty(Split(UrlPath(url), "/"))

WithoutGitSuffix(name) ==
    IF EndsWith(name, ".git") THEN SubSeq(name, 1, Len(name) - 4) ELSE name

\* C7 as stated: get_repo_info returns the owner and the name of the first two
\* path segments (the name without a trailing .git), and fails with ValueError on
\* a path of fewer than two non-empty segments
C7_Original ==
    choice = "1" =>
        IF Len(Segments(repo_url)) < 2
        THEN raised = [type |-> "ValueError", at |-> "get_repo_info"]
        ELSE /\ raised.at # "get_repo_info"
             /\ loc = [owner |-> Segments(repo_url)[1],
                       repo  |-> WithoutGitSuffix(Segments(repo_url)[2])]

\* C8 as stated: the name returned is the name segment with one trailing ".git"
\* removed when it ends with ".git", and the segment unchanged otherwise
C8_Original ==
    (choice = "1" /\ raised.at # "get_repo_info") =>
        LET n == Segments(repo_url)[2]
        IN  /\ EndsWith(n, ".git") => loc.repo \o ".git" = n
            /\ ~EndsWith(n, ".git") => loc.repo = n

IsPositiveInteger(s) == IsDigit(s) /\ ToInt(s) > 0

\* C9 as stated: top_k is the number typed when that is a positive integer, and 5
\* for every other input
C9_Original ==
    choice = "2" =>
        top_k = IF IsPositiveInteger(Strip(top_k_line)) THEN ToInt(Strip(top_k_line)) ELSE 5

NoRepeat(seq) == \A a, b \in DOMAIN seq : a # b => seq[a] # seq[b]

QueryDone == choice = "2" /\ pc = "menu" /\ raised = NoExc

\* the summarization calls a query has made by now: one per summary, and the one that failed
SummarizeCalls ==
    [k \in 1..(Len(summaries) + IF raised.at = "summarize_text" THEN 1 ELSE 0) |->
        [kind |-> "summarize", url |-> context_docs[k]]]

\* C10: a query calls the store once, then summarizes the retrieved documents one
\* by one in retrieval order, then joins the summaries in that order, truncates
\* once and makes one answer completion call; a failed call ends the workflow and
\* no request of an ingest is made twice
C10_EachCallOnceInOrder ==
    /\ (choice = "2" /\ raised.at # "query_vector_db") =>
         /\ Len(summaries) <= Len(context_docs)
         /\ QueryDone => Len(summaries) = Len(context_docs)
         /\ calls = <<[kind |-> "get_or_create_collection", url |-> collection_name],
                      [kind |-> "query", url |-> collection_name]>>
                    \o SummarizeCalls
                    \o (IF QueryDone
                        THEN <<[kind |-> "truncate", url |-> Join(summaries, "\n\n")],
                               [kind |-> "complete",
                                url |-> Prompt(Join(summaries, "\n\n"), query)]>>
                        ELSE <<>>)
    /\ (choice = "2" /\ raised.at = "query_vector_db") =>
         /\ Len(calls) <= 2 /\ NoRepeat(calls) /\ context_docs = <<>>
    /\ choice = "1" => NoRepeat(calls)

\* two documents retrieved and summarized, then answered
C10_Witness ==
    /\ QueryDone /\ Len(context_docs) = 2 /\ context_docs[1] # context_docs[2]
    /\ summaries = <<"S1", "S2">> /\ EndedWith("complete")
====
